---- MODULE Spec2Model ----
(***************************************************************************)
(* Model of the live-polling backend: the relational schema created by     *)
(* db_setup.create_tables (tables, keys, foreign keys with their ON DELETE *)
(* actions, unique and check constraints) and the query functions of db.py *)
(* that run one SQL statement each inside `with conn:` (commit on return,  *)
(* rollback on exception).                                                 *)
(*                                                                         *)
(* Abstractions: the timestamp columns (created_at, updated_at, joined_at, *)
(* started_at, ended_at) are server-assigned by now() and never read by a  *)
(* decision of the code; they are left out of the rows.  VARCHAR length    *)
(* limits are not modelled (every input string fits).                      *)
(***************************************************************************)
EXTENDS Integers, Sequences, FiniteSets, TLC

VARIABLES
    users,          \* rows of table users
    presentations,  \* rows of table presentations
    questions,      \* rows of table questions
    options,        \* rows of table options
    live_sessions,  \* rows of table live_sessions
    participants,   \* rows of table participants
    votes,          \* rows of table votes
    qna_messages,   \* rows of table qna_messages
    qna_upvotes,    \* rows of table qna_upvotes
    seq,            \* last value handed out by each table's SERIAL sequence
    last,           \* the last call: function, arguments, exception, return value
    requests,       \* concurrent requests, each on its own connection
    question_types, \* rows of table question_types
    relations,      \* names of the tables and indexes that exist
    handlers,       \* the HTTP requests of app.py and where each stands
    connections     \* the connections get_connection has opened

tables == <<users, presentations, questions, options, live_sessions,
            participants, votes, qna_messages, qna_upvotes>>
vars == <<users, presentations, questions, options, live_sessions,
          participants, votes, qna_messages, qna_upvotes, seq, last, requests,
          question_types, relations, handlers, connections>>

(* What create_tables writes, and what the request handlers of app.py      *)
(* write.                                                                  *)
setup == <<question_types, relations>>
app == <<handlers, connections>>

----------------------------------------------------------------------------
(* Bounds of the model: how many ids each SERIAL sequence may hand out.    *)
MaxUsers == 1
MaxPresentations == 1
MaxQuestions == 2
MaxOptions == 2
MaxSessions == 2
MaxParticipants == 2
MaxVotes == 2
MaxMessages == 1
MaxUpvotes == 1
MaxRequests == 2

(* SQL NULL / Python None, and a present value.                            *)
None == <<>>
Some(v) == <<v>>
Opt(S) == {None} \cup {Some(v) : v \in S}

(* Input domains.                                                          *)
Emails == {"a@x", "b@x"}
Nicknames == {"alice", "bob"}
AccessCodes == {"ABC123", "XYZ789"}
Statuses == {"created", "live", "ended"}
StatusInputs == Statuses \cup {"paused"}
TextAnswers == {"blue"}

(* The rows create_tables seeds the question_types lookup table with.      *)
QuestionTypeSeed ==
    { [code |-> "multiple_choice", label |-> "Multiple choice", uses_options |-> TRUE,  allows_text_answer |-> FALSE],
      [code |-> "quiz",            label |-> "Quiz",            uses_options |-> TRUE,  allows_text_answer |-> FALSE],
      [code |-> "open_ended",      label |-> "Open ended",      uses_options |-> FALSE, allows_text_answer |-> TRUE],
      [code |-> "word_cloud",      label |-> "Word cloud",      uses_options |-> FALSE, allows_text_answer |-> TRUE],
      [code |-> "scales",          label |-> "Scales",          uses_options |-> FALSE, allows_text_answer |-> FALSE],
      [code |-> "ranking",         label |-> "Ranking",         uses_options |-> FALSE, allows_text_answer |-> FALSE],
      [code |-> "qna",             label |-> "Q&A",             uses_options |-> FALSE, allows_text_answer |-> TRUE],
      [code |-> "image_choice",    label |-> "Image choice",    uses_options |-> TRUE,  allows_text_answer |-> FALSE],
      [code |-> "slider",          label |-> "Slider",          uses_options |-> FALSE, allows_text_answer |-> FALSE],
      [code |-> "grid",            label |-> "Grid",            uses_options |-> FALSE, allows_text_answer |-> FALSE],
      [code |-> "prioritization",  label |-> "Prioritization",  uses_options |-> FALSE, allows_text_answer |-> FALSE],
      [code |-> "quick_form",      label |-> "Quick form",      uses_options |-> FALSE, allows_text_answer |-> TRUE],
      [code |-> "content_slide",   label |-> "Content slide",   uses_options |-> FALSE, allows_text_answer |-> FALSE] }

----------------------------------------------------------------------------
(* The database as one value, for the operators that compute a statement's *)
(* effect.                                                                 *)
DB == [users |-> users, presentations |-> presentations, questions |-> questions,
       options |-> options, live_sessions |-> live_sessions,
       participants |-> participants, votes |-> votes,
       qna_messages |-> qna_messages, qna_upvotes |-> qna_upvotes]

SetDB(d) ==
    /\ users' = d.users
    /\ presentations' = d.presentations
    /\ questions' = d.questions
    /\ options' = d.options
    /\ live_sessions' = d.live_sessions
    /\ participants' = d.participants
    /\ votes' = d.votes
    /\ qna_messages' = d.qna_messages
    /\ qna_upvotes' = d.qna_upvotes

Ids(rows) == {r.id : r \in rows}
Row(rows, id) == CHOOSE r \in rows : r.id = id

(* cur.fetchone(): the row, or None.                                       *)
FetchOne(rows) == IF rows = {} THEN None ELSE Some(CHOOSE r \in rows : TRUE)

(* The outcome of a statement: the database it leaves, or the error that   *)
(* aborted it.                                                             *)
Ok(d) == [err |-> "", db |-> d]
Err(e, d) == [err |-> e, db |-> d]

(* All orders in which a statement may visit a set of rows.                *)
RECURSIVE Orders(_)
Orders(S) ==
    IF S = {} THEN {<<>>}
    ELSE UNION {{<<x>> \o s : s \in Orders(S \ {x})} : x \in S}

----------------------------------------------------------------------------
(* Constraints declared by create_tables.                                  *)

(* The votes table without its CHECK constraint.                           *)
votes_without_check(v) == TRUE

(* CONSTRAINT votes_one_answer_only CHECK                                  *)
(*   ((option_id IS NOT NULL) <> (text_answer IS NOT NULL))                *)
votes_one_answer_only(v) == (v.option_id # None) # (v.text_answer # None)

(* The votes table without its UNIQUE constraint.                          *)
votes_without_unique(rows, v) == TRUE

(* CONSTRAINT votes_one_per_question UNIQUE                                *)
(*   (session_id, participant_id, question_id): would row v collide?       *)
votes_one_per_question(rows, v) ==
    \A w \in rows : ~ ( /\ w.session_id = v.session_id
                        /\ w.participant_id = v.participant_id
                        /\ w.question_id = v.question_id )

(* A participants table whose nicknames are unique only per row id.        *)
participants_without_unique(rows, p) == TRUE

(* participants UNIQUE (session_id, nickname)                              *)
participants_unique(rows, p) ==
    \A w \in rows : ~ (w.session_id = p.session_id /\ w.nickname = p.nickname)

(* live_sessions without the UNIQUE on access_code.                        *)
access_code_without_unique(rows, s) == TRUE

(* live_sessions.access_code UNIQUE (other rows than the row itself)       *)
access_code_unique(rows, s) ==
    \A w \in rows : w.id # s.id => w.access_code # s.access_code

(* CONSTRAINT live_sessions_status_check                                   *)
live_sessions_status_check(s) == s.status \in Statuses

(* users.email UNIQUE (other rows than the row itself)                     *)
users_email_unique(rows, u) ==
    \A w \in rows : w.id # u.id => w.email # u.email

(* qna_upvotes UNIQUE (message_id, participant_id)                         *)
qna_upvotes_unique(rows, u) ==
    \A w \in rows : ~ (w.message_id = u.message_id /\ w.participant_id = u.participant_id)

----------------------------------------------------------------------------
(* DELETE statements with their referential actions.  PostgreSQL runs the  *)
(* referential actions as AFTER ROW triggers: for each deleted row, in the *)
(* order the statement visited the rows, the triggers of that row fire in  *)
(* the order the foreign keys were created; a trigger's own statement runs *)
(* to its end, its triggers included, before the next trigger fires.  The  *)
(* order in which a statement visits rows is not determined, so a DELETE   *)
(* over several rows has a set of possible outcomes.                       *)

(* DELETE FROM options WHERE id IN O; then votes.option_id ON DELETE SET   *)
(* NULL, an UPDATE of votes that votes_one_answer_only checks.             *)
DeleteOptionsStmt(d, O) ==
    LET d1 == [d EXCEPT !.options = {o \in @ : o.id \notin O}]
        hit == {v \in d1.votes : v.option_id # None /\ v.option_id[1] \in O}
        upd(v) == [v EXCEPT !.option_id = None]
    IN  IF \E v \in hit : ~ votes_one_answer_only(upd(v))
        THEN Err("CheckViolation", d)
        ELSE Ok([d1 EXCEPT !.votes = (@ \ hit) \cup {upd(v) : v \in hit}])

(* DELETE FROM qna_messages WHERE id IN M; qna_upvotes.message_id CASCADE. *)
DeleteMessagesStmt(d, M) ==
    [d EXCEPT !.qna_messages = {m \in @ : m.id \notin M},
              !.qna_upvotes = {u \in @ : u.message_id \notin M}]

(* DELETE FROM participants WHERE id IN P; votes.participant_id CASCADE,   *)
(* qna_messages.participant_id SET NULL, qna_upvotes.participant_id        *)
(* CASCADE.                                                                *)
DeleteParticipantsStmt(d, P) ==
    [d EXCEPT !.participants = {p \in @ : p.id \notin P},
              !.votes = {v \in @ : v.participant_id \notin P},
              !.qna_messages =
                  {IF m.participant_id # None /\ m.participant_id[1] \in P
                   THEN [m EXCEPT !.participant_id = None] ELSE m : m \in @},
              !.qna_upvotes = {u \in @ : u.participant_id \notin P}]

(* DELETE FROM live_sessions WHERE id IN S; participants.session_id        *)
(* CASCADE, votes.session_id CASCADE, qna_messages.session_id CASCADE.     *)
DeleteSessionsStmt(d, S) ==
    LET d1 == [d EXCEPT !.live_sessions = {s \in @ : s.id \notin S}]
        d2 == DeleteParticipantsStmt(d1, {p.id : p \in {q \in d1.participants : q.session_id \in S}})
        d3 == [d2 EXCEPT !.votes = {v \in @ : v.session_id \notin S}]
    IN  DeleteMessagesStmt(d3, {m.id : m \in {n \in d3.qna_messages : n.session_id \in S}})

(* The triggers of deleted questions with current_question_id ON DELETE    *)
(* CASCADE in place of SET NULL: the sessions pointing at them are deleted. *)
RECURSIVE QuestionTriggersCascading(_, _)
QuestionTriggersCascading(d, qs) ==
    IF qs = <<>> THEN Ok(d)
    ELSE LET q == Head(qs)
             r == DeleteOptionsStmt(d, {o.id : o \in {x \in d.options : x.question_id = q}})
         IN  IF r.err # "" THEN r
             ELSE QuestionTriggersCascading(
                    [DeleteSessionsStmt(r.db,
                        {s.id : s \in {x \in r.db.live_sessions : x.current_question_id = Some(q)}})
                     EXCEPT !.votes = {v \in @ : v.question_id # q}],
                    Tail(qs))

(* The triggers of the deleted question rows qs, visited in this order:    *)
(* options.question_id CASCADE, live_sessions.current_question_id SET      *)
(* NULL, votes.question_id CASCADE.                                        *)
RECURSIVE QuestionTriggers(_, _)
QuestionTriggers(d, qs) ==
    IF qs = <<>> THEN Ok(d)
    ELSE LET q == Head(qs)
             r == DeleteOptionsStmt(d, {o.id : o \in {x \in d.options : x.question_id = q}})
         IN  IF r.err # "" THEN r
             ELSE QuestionTriggers(
                    [r.db EXCEPT
                       !.live_sessions =
                           {IF s.current_question_id = Some(q)
                            THEN [s EXCEPT !.current_question_id = None] ELSE s : s \in @},
                       !.votes = {v \in @ : v.question_id # q}],
                    Tail(qs))

(* DELETE FROM questions WHERE id IN Q: the possible outcomes.             *)
DeleteQuestionsStmt(d, Q) ==
    { QuestionTriggers([d EXCEPT !.questions = {q \in @ : q.id \notin Q}], qs) : qs \in Orders(Q) }

(* The triggers of the deleted presentation rows ps, visited in this       *)
(* order: questions.presentation_id CASCADE, live_sessions.presentation_id *)
(* CASCADE.  The set of possible outcomes.                                 *)
RECURSIVE PresentationTriggers(_, _)
PresentationTriggers(d, ps) ==
    IF ps = <<>> THEN {Ok(d)}
    ELSE LET p == Head(ps)
             rs == DeleteQuestionsStmt(d, {q.id : q \in {x \in d.questions : x.presentation_id = p}})
         IN  UNION { IF r.err # "" THEN {r}
                     ELSE PresentationTriggers(
                            DeleteSessionsStmt(r.db,
                                {s.id : s \in {x \in r.db.live_sessions : x.presentation_id = p}}),
                            Tail(ps))
                     : r \in rs }

(* DELETE FROM presentations WHERE id IN P: the possible outcomes.         *)
DeletePresentationsStmt(d, P) ==
    UNION { PresentationTriggers([d EXCEPT !.presentations = {p \in @ : p.id \notin P}], ps)
            : ps \in Orders(P) }

(* DELETE FROM users WHERE id IN U; presentations.owner_id CASCADE.        *)
DeleteUsersStmt(d, U) ==
    LET d1 == [d EXCEPT !.users = {u \in @ : u.id \notin U}]
    IN  DeletePresentationsStmt(d1, {p.id : p \in {x \in d1.presentations : x.owner_id \in U}})

----------------------------------------------------------------------------
(* The query functions of db.py.  Each runs one statement inside           *)
(* `with conn:`: the transaction commits when the function returns and is  *)
(* rolled back when the statement raises.  `last` records the call: the    *)
(* function, its arguments, the exception it raised ("" for none) and the  *)
(* value it returned (None, <<row>> or <<boolean>>).                       *)

Call(op, args, exc, ret) ==
    /\ last' = [op |-> op, args |-> args, exc |-> exc, ret |-> ret]
    /\ UNCHANGED <<requests, setup, app>>

(* A statement that raised: rolled back, nothing returned.                 *)
Raise(op, args, exc) == UNCHANGED tables /\ Call(op, args, exc, None)

(* A statement that ran: committed.                                        *)
Commit(op, args, d, ret) == SetDB(d) /\ Call(op, args, "", ret)

(* nextval() of a table's SERIAL sequence: taken by every INSERT, also by  *)
(* one that fails afterwards (a sequence is not rolled back).              *)
NextVal(t) == seq[t] + 1
Advance(t) == seq' = [seq EXCEPT ![t] = @ + 1]

(* A DELETE ... RETURNING id with its possible outcomes rs, for a key      *)
(* that `found` says matched a row: fetchone() is not None.                *)
DeleteCall(op, args, rs, found) ==
    /\ UNCHANGED seq
    /\ \E r \in rs :
          IF r.err # "" THEN Raise(op, args, r.err)
          ELSE Commit(op, args, r.db, Some(found))

(* ---- users ---- *)

(* The columns the users functions return (password_hash is not).          *)
UserView(u) == [id |-> u.id, email |-> u.email, avatar_url |-> u.avatar_url, role |-> u.role]

users_get(user_id) ==
    /\ UNCHANGED <<tables, seq>>
    /\ Call("users_get", <<user_id>>, "",
            FetchOne({UserView(u) : u \in {x \in users : x.id = user_id}}))

users_create(email, password_hash, avatar_url, role) ==
    /\ seq.users < MaxUsers
    /\ Advance("users")
    /\ LET row == [id |-> NextVal("users"), email |-> email, password_hash |-> password_hash,
                   avatar_url |-> avatar_url, role |-> role]
           args == <<email, password_hash, avatar_url, role>>
       IN  IF ~ users_email_unique(users, row)
           THEN Raise("users_create", args, "UniqueViolation")
           ELSE Commit("users_create", args, [DB EXCEPT !.users = @ \cup {row}], Some(UserView(row)))

(* The SET clause of users_patch: the supplied (not None) fields.          *)
UsersPatched(u, email, password_hash, avatar_url, role) ==
    [u EXCEPT !.email = IF email # None THEN email[1] ELSE @,
              !.password_hash = IF password_hash # None THEN password_hash[1] ELSE @,
              !.avatar_url = IF avatar_url # None THEN avatar_url ELSE @,
              !.role = IF role # None THEN role[1] ELSE @]

(* users_patch without its `if not updates: return None`.                  *)
users_patch_always_updating(user_id, email, password_hash, avatar_url, role) ==
    LET args == <<user_id, email, password_hash, avatar_url, role>>
        hit == {u \in users : u.id = user_id}
        new == {UsersPatched(u, email, password_hash, avatar_url, role) : u \in hit}
    IN  /\ UNCHANGED seq
        /\ IF \E u \in new : ~ users_email_unique(users, u)
           THEN Raise("users_patch", args, "UniqueViolation")
           ELSE Commit("users_patch", args, [DB EXCEPT !.users = (@ \ hit) \cup new],
                       FetchOne({UserView(u) : u \in new}))

users_patch(user_id, email, password_hash, avatar_url, role) ==
    LET args == <<user_id, email, password_hash, avatar_url, role>>
        hit == {u \in users : u.id = user_id}
        new == {UsersPatched(u, email, password_hash, avatar_url, role) : u \in hit}
    IN  /\ UNCHANGED seq
        /\ IF email = None /\ password_hash = None /\ avatar_url = None /\ role = None
           THEN UNCHANGED tables /\ Call("users_patch", args, "", None)
           ELSE IF \E u \in new : ~ users_email_unique(users, u)
           THEN Raise("users_patch", args, "UniqueViolation")
           ELSE Commit("users_patch", args, [DB EXCEPT !.users = (@ \ hit) \cup new],
                       FetchOne({UserView(u) : u \in new}))

users_delete(user_id) ==
    DeleteCall("users_delete", <<user_id>>,
               DeleteUsersStmt(DB, {user_id} \cap Ids(users)), user_id \in Ids(users))

(* ---- presentations ---- *)

(* presentations_get: presentations JOIN users, with u.email AS            *)
(* owner_email.                                                            *)
PresentationJoined(d, p) ==
    { [id |-> p.id, owner_id |-> p.owner_id, title |-> p.title, owner_email |-> u.email]
      : u \in {x \in d.users : x.id = p.owner_id} }

presentations_get(presentation_id) ==
    /\ UNCHANGED <<tables, seq>>
    /\ Call("presentations_get", <<presentation_id>>, "",
            FetchOne(UNION {PresentationJoined(DB, p) :
                            p \in {x \in presentations : x.id = presentation_id}}))

presentations_create(owner_id, title) ==
    /\ seq.presentations < MaxPresentations
    /\ Advance("presentations")
    /\ LET row == [id |-> NextVal("presentations"), owner_id |-> owner_id, title |-> title]
           args == <<owner_id, title>>
       IN  IF owner_id \notin Ids(users)
           THEN Raise("presentations_create", args, "ForeignKeyViolation")
           ELSE Commit("presentations_create", args,
                       [DB EXCEPT !.presentations = @ \cup {row}], Some(row))

presentations_delete(presentation_id) ==
    DeleteCall("presentations_delete", <<presentation_id>>,
               DeletePresentationsStmt(DB, {presentation_id} \cap Ids(presentations)),
               presentation_id \in Ids(presentations))

(* ---- questions ---- *)

(* json.dumps(settings or {}) stored as jsonb and read back as a dict: a   *)
(* dict is the set of its <<key, value>> pairs; None and the empty dict    *)
(* both store the empty dict.                                              *)
SettingsJson(settings) == IF settings = None THEN {} ELSE settings[1]

(* questions_get with q.settings missing from its SELECT list.             *)
QuestionJoinedWithoutSettings(q) ==
    { [id |-> q.id, presentation_id |-> q.presentation_id, type_code |-> q.type_code,
       text |-> q.text, media_url |-> q.media_url, order_index |-> q.order_index,
       type_label |-> qt.label]
      : qt \in {x \in question_types : x.code = q.type_code} }

(* questions_get: questions JOIN question_types, with qt.label AS          *)
(* type_label.                                                             *)
QuestionJoined(q) ==
    { [id |-> q.id, presentation_id |-> q.presentation_id, type_code |-> q.type_code,
       text |-> q.text, media_url |-> q.media_url, order_index |-> q.order_index,
       settings |-> q.settings, type_label |-> qt.label]
      : qt \in {x \in question_types : x.code = q.type_code} }

questions_get(question_id) ==
    /\ UNCHANGED <<tables, seq>>
    /\ Call("questions_get", <<question_id>>, "",
            FetchOne(UNION {QuestionJoined(q) : q \in {x \in questions : x.id = question_id}}))

questions_create(presentation_id, type_code, text, media_url, order_index, settings) ==
    /\ seq.questions < MaxQuestions
    /\ Advance("questions")
    /\ LET row == [id |-> NextVal("questions"), presentation_id |-> presentation_id,
                   type_code |-> type_code, text |-> text, media_url |-> media_url,
                   order_index |-> order_index, settings |-> SettingsJson(settings)]
           args == <<presentation_id, type_code, text, media_url, order_index, settings>>
       IN  IF \/ presentation_id \notin Ids(presentations)
              \/ type_code \notin {qt.code : qt \in question_types}
           THEN Raise("questions_create", args, "ForeignKeyViolation")
           ELSE Commit("questions_create", args, [DB EXCEPT !.questions = @ \cup {row}], Some(row))

questions_delete(question_id) ==
    DeleteCall("questions_delete", <<question_id>>,
               DeleteQuestionsStmt(DB, {question_id} \cap Ids(questions)),
               question_id \in Ids(questions))

(* ---- options ---- *)

options_create(question_id, text, is_correct, order_index) ==
    /\ seq.options < MaxOptions
    /\ Advance("options")
    /\ LET row == [id |-> NextVal("options"), question_id |-> question_id, text |-> text,
                   is_correct |-> is_correct, order_index |-> order_index]
           args == <<question_id, text, is_correct, order_index>>
       IN  IF question_id \notin Ids(questions)
           THEN Raise("options_create", args, "ForeignKeyViolation")
           ELSE Commit("options_create", args, [DB EXCEPT !.options = @ \cup {row}], Some(row))

options_delete(option_id) ==
    DeleteCall("options_delete", <<option_id>>,
               {DeleteOptionsStmt(DB, {option_id} \cap Ids(options))},
               option_id \in Ids(options))

(* ---- live sessions ---- *)

(* The constraints of a live_sessions row written into table rows, in the  *)
(* order PostgreSQL checks them: CHECK, then the unique index, then the    *)
(* foreign keys.  "" when the row is accepted.                             *)
SessionRowError(d, s) ==
    IF ~ live_sessions_status_check(s) THEN "CheckViolation"
    ELSE IF ~ access_code_unique(d.live_sessions, s) THEN "UniqueViolation"
    ELSE IF \/ s.presentation_id \notin Ids(d.presentations)
            \/ (s.current_question_id # None /\ s.current_question_id[1] \notin Ids(d.questions))
         THEN "ForeignKeyViolation"
    ELSE ""

sessions_get(session_id) ==
    /\ UNCHANGED <<tables, seq>>
    /\ Call("sessions_get", <<session_id>>, "", FetchOne({s \in live_sessions : s.id = session_id}))

(* A sessions_create that catches the error of its INSERT and returns None. *)
sessions_create_swallowing_errors(presentation_id, access_code, status, current_question_id) ==
    /\ seq.live_sessions < MaxSessions
    /\ Advance("live_sessions")
    /\ LET row == [id |-> NextVal("live_sessions"), presentation_id |-> presentation_id,
                   access_code |-> access_code, status |-> status,
                   current_question_id |-> current_question_id]
           args == <<presentation_id, access_code, status, current_question_id>>
       IN  IF SessionRowError(DB, row) # ""
           THEN UNCHANGED tables /\ Call("sessions_create", args, "", None)
           ELSE Commit("sessions_create", args, [DB EXCEPT !.live_sessions = @ \cup {row}], Some(row))

sessions_create(presentation_id, access_code, status, current_question_id) ==
    /\ seq.live_sessions < MaxSessions
    /\ Advance("live_sessions")
    /\ LET row == [id |-> NextVal("live_sessions"), presentation_id |-> presentation_id,
                   access_code |-> access_code, status |-> status,
                   current_question_id |-> current_question_id]
           args == <<presentation_id, access_code, status, current_question_id>>
           e == SessionRowError(DB, row)
       IN  IF e # "" THEN Raise("sessions_create", args, e)
           ELSE Commit("sessions_create", args, [DB EXCEPT !.live_sessions = @ \cup {row}], Some(row))

(* A SET clause that writes current_question_id whether supplied or not.   *)
SessionsPatchedOverwriting(s, status, current_question_id) ==
    [s EXCEPT !.status = IF status # None THEN status[1] ELSE @,
              !.current_question_id = current_question_id]

(* The SET clause of sessions_patch: the supplied (not None) fields.       *)
SessionsPatched(s, status, current_question_id) ==
    [s EXCEPT !.status = IF status # None THEN status[1] ELSE @,
              !.current_question_id = IF current_question_id # None THEN current_question_id ELSE @]

sessions_patch(session_id, status, current_question_id) ==
    LET args == <<session_id, status, current_question_id>>
        hit == {s \in live_sessions : s.id = session_id}
        new == {SessionsPatched(s, status, current_question_id) : s \in hit}
        errs == {SessionRowError(DB, s) : s \in new} \ {""}
    IN  /\ UNCHANGED seq
        /\ IF status = None /\ current_question_id = None
           THEN UNCHANGED tables /\ Call("sessions_patch", args, "", None)
           ELSE IF errs # {}
           THEN Raise("sessions_patch", args, CHOOSE e \in errs : TRUE)
           ELSE Commit("sessions_patch", args, [DB EXCEPT !.live_sessions = (@ \ hit) \cup new],
                       FetchOne(new))

(* UPDATE live_sessions SET all four columns WHERE id = session_id.        *)
sessions_update(session_id, presentation_id, access_code, status, current_question_id) ==
    LET args == <<session_id, presentation_id, access_code, status, current_question_id>>
        hit == {s \in live_sessions : s.id = session_id}
        new == {[s EXCEPT !.presentation_id = presentation_id, !.access_code = access_code,
                          !.status = status, !.current_question_id = current_question_id]
                : s \in hit}
        errs == {SessionRowError(DB, s) : s \in new} \ {""}
    IN  /\ UNCHANGED seq
        /\ IF errs # {}
           THEN Raise("sessions_update", args, CHOOSE e \in errs : TRUE)
           ELSE Commit("sessions_update", args, [DB EXCEPT !.live_sessions = (@ \ hit) \cup new],
                       FetchOne(new))

(* SELECT ... FROM live_sessions WHERE access_code = %s; fetchone().       *)
sessions_get_by_code(access_code) ==
    /\ UNCHANGED <<tables, seq>>
    /\ Call("sessions_get_by_code", <<access_code>>, "",
            FetchOne({s \in live_sessions : s.access_code = access_code}))

sessions_delete(session_id) ==
    DeleteCall("sessions_delete", <<session_id>>,
               {Ok(DeleteSessionsStmt(DB, {session_id} \cap Ids(live_sessions)))},
               session_id \in Ids(live_sessions))

(* ---- participants ---- *)

participants_create(session_id, nickname) ==
    /\ seq.participants < MaxParticipants
    /\ Advance("participants")
    /\ LET row == [id |-> NextVal("participants"), session_id |-> session_id, nickname |-> nickname]
           args == <<session_id, nickname>>
       IN  IF ~ participants_unique(participants, row)
           THEN Raise("participants_create", args, "UniqueViolation")
           ELSE IF session_id \notin Ids(live_sessions)
           THEN Raise("participants_create", args, "ForeignKeyViolation")
           ELSE Commit("participants_create", args,
                       [DB EXCEPT !.participants = @ \cup {row}], Some(row))

participants_delete(participant_id) ==
    DeleteCall("participants_delete", <<participant_id>>,
               {Ok(DeleteParticipantsStmt(DB, {participant_id} \cap Ids(participants)))},
               participant_id \in Ids(participants))

(* ---- votes ---- *)

votes_create(session_id, participant_id, question_id, option_id, text_answer) ==
    /\ seq.votes < MaxVotes
    /\ Advance("votes")
    /\ LET row == [id |-> NextVal("votes"), session_id |-> session_id,
                   participant_id |-> participant_id, question_id |-> question_id,
                   option_id |-> option_id, text_answer |-> text_answer]
           args == <<session_id, participant_id, question_id, option_id, text_answer>>
       IN  IF ~ votes_one_answer_only(row)
           THEN Raise("votes_create", args, "CheckViolation")
           ELSE IF ~ votes_one_per_question(votes, row)
           THEN Raise("votes_create", args, "UniqueViolation")
           ELSE IF \/ session_id \notin Ids(live_sessions)
                   \/ participant_id \notin Ids(participants)
                   \/ question_id \notin Ids(questions)
                   \/ (option_id # None /\ option_id[1] \notin Ids(options))
           THEN Raise("votes_create", args, "ForeignKeyViolation")
           ELSE Commit("votes_create", args, [DB EXCEPT !.votes = @ \cup {row}], Some(row))

(* ---- Q&A messages ---- *)

qna_messages_create(session_id, text, participant_id) ==
    /\ seq.qna_messages < MaxMessages
    /\ Advance("qna_messages")
    /\ LET row == [id |-> NextVal("qna_messages"), session_id |-> session_id,
                   participant_id |-> participant_id, text |-> text,
                   is_answered |-> FALSE, is_hidden |-> FALSE]
           args == <<session_id, text, participant_id>>
       IN  IF \/ session_id \notin Ids(live_sessions)
              \/ (participant_id # None /\ participant_id[1] \notin Ids(participants))
           THEN Raise("qna_messages_create", args, "ForeignKeyViolation")
           ELSE Commit("qna_messages_create", args,
                       [DB EXCEPT !.qna_messages = @ \cup {row}], Some(row))

(* The SET clause of qna_messages_patch: the supplied (not None) flags.    *)
MessagesPatched(m, is_answered, is_hidden) ==
    [m EXCEPT !.is_answered = IF is_answered # None THEN is_answered[1] ELSE @,
              !.is_hidden = IF is_hidden # None THEN is_hidden[1] ELSE @]

qna_messages_patch(message_id, is_answered, is_hidden) ==
    LET args == <<message_id, is_answered, is_hidden>>
        hit == {m \in qna_messages : m.id = message_id}
        new == {MessagesPatched(m, is_answered, is_hidden) : m \in hit}
    IN  /\ UNCHANGED seq
        /\ IF is_answered = None /\ is_hidden = None
           THEN UNCHANGED tables /\ Call("qna_messages_patch", args, "", None)
           ELSE Commit("qna_messages_patch", args,
                       [DB EXCEPT !.qna_messages = (@ \ hit) \cup new], FetchOne(new))

qna_messages_delete(message_id) ==
    DeleteCall("qna_messages_delete", <<message_id>>,
               {Ok(DeleteMessagesStmt(DB, {message_id} \cap Ids(qna_messages)))},
               message_id \in Ids(qna_messages))

(* ---- Q&A upvotes ---- *)

qna_upvotes_create(message_id, participant_id) ==
    /\ seq.qna_upvotes < MaxUpvotes
    /\ Advance("qna_upvotes")
    /\ LET row == [id |-> NextVal("qna_upvotes"), message_id |-> message_id,
                   participant_id |-> participant_id]
           args == <<message_id, participant_id>>
       IN  IF ~ qna_upvotes_unique(qna_upvotes, row)
           THEN Raise("qna_upvotes_create", args, "UniqueViolation")
           ELSE IF message_id \notin Ids(qna_messages) \/ participant_id \notin Ids(participants)
           THEN Raise("qna_upvotes_create", args, "ForeignKeyViolation")
           ELSE Commit("qna_upvotes_create", args,
                       [DB EXCEPT !.qna_upvotes = @ \cup {row}], Some(row))

qna_upvotes_delete(message_id, participant_id) ==
    LET hit == {u \in qna_upvotes : u.message_id = message_id /\ u.participant_id = participant_id}
    IN  DeleteCall("qna_upvotes_delete", <<message_id, participant_id>>,
                   {Ok([DB EXCEPT !.qna_upvotes = @ \ hit])}, hit # {})

----------------------------------------------------------------------------
(* create_tables of db_setup.py: one transaction that creates the tables,  *)
(* seeds question_types between the third and the fourth table, creates    *)
(* the indexes and commits; any error rolls all of it back.                *)

SeedStatement == "INSERT INTO question_types"

(* The statements of create_tables in their order: the name of the table   *)
(* or index a CREATE statement creates, or the seed.                       *)
SetupStatements ==
    << "users", "presentations", "question_types", SeedStatement, "questions", "options",
       "live_sessions", "participants", "votes", "qna_messages", "qna_upvotes",
       "idx_questions_presentation_order", "idx_options_question",
       "idx_sessions_presentation", "idx_participants_session",
       "idx_votes_session_question", "idx_qna_messages_session", "idx_qna_upvotes_message" >>

Relations == {SetupStatements[i] : i \in DOMAIN SetupStatements} \ {SeedStatement}

(* The statements run from relations rels and question_types rows qts:     *)
(* CREATE TABLE and CREATE INDEX raise when the relation exists; the seed  *)
(* is INSERT ... ON CONFLICT (code) DO NOTHING.                            *)
RECURSIVE RunSetup(_, _, _)
RunSetup(stmts, rels, qts) ==
    IF stmts = <<>> THEN [err |-> "", relations |-> rels, question_types |-> qts]
    ELSE IF Head(stmts) = SeedStatement
    THEN IF "question_types" \notin rels
         THEN [err |-> "UndefinedTable", relations |-> rels, question_types |-> qts]
         ELSE RunSetup(Tail(stmts), rels,
                       qts \cup {r \in QuestionTypeSeed : \A q \in qts : q.code # r.code})
    ELSE IF Head(stmts) \in rels
    THEN [err |-> "DuplicateTable", relations |-> rels, question_types |-> qts]
    ELSE RunSetup(Tail(stmts), rels \cup {Head(stmts)}, qts)

(* get_connection() raises when the database cannot be reached; otherwise  *)
(* the statements run, then con.commit(), or con.rollback() and raise.     *)
create_tables ==
    /\ UNCHANGED <<tables, seq, requests, app>>
    /\ \E reachable \in BOOLEAN :
          LET r == RunSetup(SetupStatements, relations, question_types)
              e == IF ~ reachable THEN "OperationalError" ELSE r.err
          IN  /\ last' = [op |-> "create_tables", args |-> <<>>, exc |-> e, ret |-> None]
              /\ IF e # "" THEN UNCHANGED setup
                 ELSE /\ relations' = r.relations
                      /\ question_types' = r.question_types

----------------------------------------------------------------------------
(* The request handlers of app.py.  A handler runs in steps: it opens a    *)
(* connection, calls a function of module db inside try, handles an        *)
(* exception, and closes the connection in finally.                        *)

Handlers == 1..MaxRequests

(* The names module db defines.                                            *)
DbFunctions ==
    { "users_list", "users_get", "users_create", "users_update", "users_patch", "users_delete",
      "presentations_list", "presentations_get", "presentations_create",
      "presentations_update", "presentations_delete", "question_types_list",
      "questions_list_for_presentation", "questions_get", "questions_create",
      "questions_update", "questions_delete", "options_list_for_question", "options_create",
      "options_update", "options_delete", "sessions_list", "sessions_get",
      "sessions_get_by_code", "sessions_create", "sessions_update", "sessions_patch",
      "sessions_delete", "participants_list_for_session", "participants_create",
      "participants_delete", "votes_list_for_session", "votes_list_for_question",
      "votes_create", "qna_messages_list_for_session", "qna_messages_create",
      "qna_messages_patch", "qna_messages_delete", "qna_upvotes_create", "qna_upvotes_delete",
      "json", "RealDictCursor" }

(* A handler no request has reached yet.                                   *)
Idle == [route |-> "", body |-> None, pc |-> "idle", conn |-> None, exc |-> "",
         response |-> None, queries |-> 0]

(* The request bodies: schemas.UserCreate and schemas.PresentationCreate.  *)
UserCreate == {[email |-> e, password_hash |-> "h", avatar_url |-> None, role |-> "user"] : e \in Emails}
PresentationCreate == {[title |-> "Poll", owner_id |-> o] : o \in 1..MaxUsers}

HTTPException(status_code, detail) == Some([status_code |-> status_code, detail |-> detail])

(* conn = get_connection(): psycopg2.connect returns a new connection or   *)
(* raises; the call is outside try, so the exception ends the request      *)
(* (500 from the framework).                                               *)
get_connection(h, route, body) ==
    /\ handlers[h].pc = "idle"
    /\ \E reachable \in BOOLEAN :
          IF reachable
          THEN /\ connections' = Append(connections, [open |-> TRUE, owner |-> h])
               /\ handlers' = [handlers EXCEPT ![h] =
                     [@ EXCEPT !.route = route, !.body = body, !.pc = "try",
                               !.conn = Some(Len(connections) + 1)]]
          ELSE /\ UNCHANGED connections
               /\ handlers' = [handlers EXCEPT ![h] =
                     [@ EXCEPT !.route = route, !.body = body, !.pc = "done",
                               !.exc = "OperationalError",
                               !.response = HTTPException(500, "Internal Server Error")]]

(* The body of try: db.<fn>(conn, ...) looks the name up in module db,     *)
(* which raises AttributeError when db does not define it; otherwise the   *)
(* function runs and the handler returns (200).                            *)
Try(h, fn) ==
    /\ handlers[h].pc = "try"
    /\ UNCHANGED connections
    /\ handlers' = [handlers EXCEPT ![h] =
          IF fn \notin DbFunctions
          THEN [@ EXCEPT !.pc = "except", !.exc = "AttributeError"]
          ELSE [@ EXCEPT !.pc = "finally", !.queries = @ + 1,
                         !.response = Some([status_code |-> 200, detail |-> ""])]]

(* except Exception as e: (conn.rollback() where the handler has it) and   *)
(* raise HTTPException(status_code, detail=str(e)).                        *)
Except(h, status_code) ==
    /\ handlers[h].pc = "except"
    /\ UNCHANGED connections
    /\ handlers' = [handlers EXCEPT ![h] =
          [@ EXCEPT !.pc = "finally",
                    !.response = HTTPException(status_code, handlers[h].exc)]]

(* finally: conn.close().                                                  *)
Finally(h) ==
    /\ handlers[h].pc = "finally"
    /\ connections' = [connections EXCEPT ![handlers[h].conn[1]].open = FALSE]
    /\ handlers' = [handlers EXCEPT ![h].pc = "done"]

(* GET /presentations                                                      *)
read_presentations(h) ==
    /\ UNCHANGED <<tables, seq, last, requests, setup>>
    /\ \/ get_connection(h, "read_presentations", None)
       \/ /\ handlers[h].route = "read_presentations"
          /\ \/ Try(h, "get_all_presentations")
             \/ Except(h, 500)
             \/ Finally(h)

(* POST /users                                                             *)
add_user(h, user) ==
    /\ UNCHANGED <<tables, seq, last, requests, setup>>
    /\ \/ get_connection(h, "add_user", Some(user))
       \/ /\ handlers[h].route = "add_user"
          /\ handlers[h].body = Some(user)
          /\ \/ Try(h, "create_user")
             \/ Except(h, 400)
             \/ Finally(h)

(* POST /presentations                                                     *)
add_presentation(h, presentation) ==
    /\ UNCHANGED <<tables, seq, last, requests, setup>>
    /\ \/ get_connection(h, "add_presentation", Some(presentation))
       \/ /\ handlers[h].route = "add_presentation"
          /\ handlers[h].body = Some(presentation)
          /\ \/ Try(h, "create_presentation")
             \/ Except(h, 400)
             \/ Finally(h)

----------------------------------------------------------------------------
(* The state after create_tables: empty tables, fresh sequences.           *)
TableNames == {"users", "presentations", "questions", "options", "live_sessions",
               "participants", "votes", "qna_messages", "qna_upvotes"}

Init ==
    /\ requests = <<>>
    /\ users = {}
    /\ presentations = {}
    /\ questions = {}
    /\ options = {}
    /\ live_sessions = {}
    /\ participants = {}
    /\ votes = {}
    /\ qna_messages = {}
    /\ qna_upvotes = {}
    /\ seq = [t \in TableNames |-> 0]
    /\ last = [op |-> "create_tables", args |-> <<>>, exc |-> "", ret |-> None]
    /\ question_types = QuestionTypeSeed
    /\ relations = Relations
    /\ handlers = [h \in Handlers |-> Idle]
    /\ connections = <<>>

UserIds == 1..MaxUsers
PresentationIds == 1..MaxPresentations
QuestionIds == 1..MaxQuestions
OptionIds == 1..MaxOptions
SessionIds == 1..MaxSessions
ParticipantIds == 1..MaxParticipants
MessageIds == 1..MaxMessages

(* Polling: a presenter builds a presentation and runs a session, a        *)
(* participant joins and votes, and rows are deleted at any time.          *)
Next ==
    \/ users_create("a@x", "h", None, "teacher")
    \/ \E id \in UserIds : users_get(id) \/ users_delete(id)
    \/ \E o \in UserIds : presentations_create(o, "Poll")
    \/ \E id \in PresentationIds : presentations_get(id) \/ presentations_delete(id)
    \/ \E p \in PresentationIds : questions_create(p, "multiple_choice", "Favorite color?", None, 0, None)
    \/ \E id \in QuestionIds : questions_get(id) \/ questions_delete(id)
    \/ \E q \in QuestionIds : options_create(q, "Red", FALSE, 0)
    \/ \E id \in OptionIds : options_delete(id)
    \/ \E p \in PresentationIds : sessions_create(p, "ABC123", "created", None)
    \/ \E id \in SessionIds : sessions_get(id) \/ sessions_delete(id)
    \/ \E s \in SessionIds : participants_create(s, "alice")
    \/ \E id \in ParticipantIds : participants_delete(id)
    \/ \E s \in SessionIds, p \in ParticipantIds, q \in QuestionIds,
          o \in Opt(OptionIds), t \in Opt(TextAnswers) : votes_create(s, p, q, o, t)

Spec == Init /\ [][Next]_vars

(* Joining: sessions of a presentation, the participants who join them and *)
(* their Q&A messages and upvotes.                                         *)
NextJoin ==
    \/ users_create("a@x", "h", None, "teacher")
    \/ \E id \in UserIds : users_delete(id)
    \/ \E o \in UserIds : presentations_create(o, "Poll")
    \/ \E id \in PresentationIds : presentations_delete(id)
    \/ \E p \in PresentationIds, c \in AccessCodes : sessions_create(p, c, "created", None)
    \/ \E id \in SessionIds : sessions_delete(id)
    \/ \E s \in SessionIds, n \in Nicknames : participants_create(s, n)
    \/ \E id \in ParticipantIds : participants_delete(id)
    \/ \E s \in SessionIds, p \in Opt(ParticipantIds) : qna_messages_create(s, "Why?", p)
    \/ \E id \in MessageIds : qna_messages_delete(id)
    \/ \E m \in MessageIds, p \in ParticipantIds :
          qna_upvotes_create(m, p) \/ qna_upvotes_delete(m, p)

SpecJoin == Init /\ [][NextJoin]_vars

(* Patching: partial updates of users, live sessions and Q&A messages.     *)
NextPatch ==
    \/ users_create("a@x", "h", None, "teacher")
    \/ \E id \in UserIds, e \in Opt(Emails), r \in Opt({"admin"}) : users_patch(id, e, None, None, r)
    \/ \E o \in UserIds : presentations_create(o, "Poll")
    \/ \E p \in PresentationIds : questions_create(p, "multiple_choice", "Favorite color?", None, 0, None)
    \/ \E p \in PresentationIds, c \in AccessCodes : sessions_create(p, c, "created", None)
    \/ \E id \in SessionIds, st \in Opt(StatusInputs), q \in Opt({1}) :
          sessions_patch(id, st, q)
    \/ \E s \in SessionIds : qna_messages_create(s, "Why?", None)
    \/ \E id \in MessageIds, a \in Opt(BOOLEAN), h \in Opt(BOOLEAN) :
          qna_messages_patch(id, a, h)

SpecPatch == Init /\ [][NextPatch]_vars

(* Running a session: sessions are created, rewritten and patched, looked  *)
(* up by access code, and lose their current question when it is deleted.  *)
NextSession ==
    \/ users_create("a@x", "h", None, "teacher")
    \/ \E o \in UserIds : presentations_create(o, "Poll")
    \/ \E p \in PresentationIds : questions_create(p, "multiple_choice", "Favorite color?", None, 0, None)
    \/ \E id \in QuestionIds : questions_delete(id)
    \/ \E p \in PresentationIds, c \in AccessCodes, st \in StatusInputs, q \in Opt(QuestionIds) :
          sessions_create(p, c, st, q)
    \/ \E id \in SessionIds, p \in PresentationIds, c \in AccessCodes, st \in StatusInputs,
          q \in Opt(QuestionIds) : sessions_update(id, p, c, st, q)
    \/ \E id \in SessionIds, st \in Opt(StatusInputs), q \in Opt(QuestionIds) :
          sessions_patch(id, st, q)
    \/ \E c \in AccessCodes : sessions_get_by_code(c)

SpecSession == Init /\ [][NextSession]_vars

(* Setting up: create_tables is run on a database without tables, and run  *)
(* again; between the runs presentations and questions of the seeded types *)
(* are created.                                                            *)
TypeCodeInputs == {"multiple_choice", "open_ended", "no_such_type"}

InitSetup ==
    /\ requests = <<>>
    /\ users = {}
    /\ presentations = {}
    /\ questions = {}
    /\ options = {}
    /\ live_sessions = {}
    /\ participants = {}
    /\ votes = {}
    /\ qna_messages = {}
    /\ qna_upvotes = {}
    /\ seq = [t \in TableNames |-> 0]
    /\ last = [op |-> "get_connection", args |-> <<>>, exc |-> "", ret |-> None]
    /\ question_types = {}
    /\ relations = {}
    /\ handlers = [h \in Handlers |-> Idle]
    /\ connections = <<>>

(* The query functions are used once the tables exist.                     *)
Installed == relations = Relations

NextSetup ==
    \/ create_tables
    \/ Installed /\ users_create("a@x", "h", None, "teacher")
    \/ Installed /\ \E o \in UserIds : presentations_create(o, "Poll")
    \/ Installed /\ \E p \in PresentationIds, tc \in TypeCodeInputs :
                        questions_create(p, tc, "Favorite color?", None, 0, None)
    \/ Installed /\ \E id \in QuestionIds : questions_get(id)
    \/ Installed /\ \E id \in QuestionIds : questions_delete(id)

SpecSetup == InitSetup /\ [][NextSetup]_vars

(* Serving: requests reach the three routes of app.py while users are      *)
(* stored by users_create.                                                 *)
NextApp ==
    \/ \E e \in Emails : users_create(e, "h", None, "teacher")
    \/ \E h \in Handlers : read_presentations(h)
    \/ \E h \in Handlers, user \in UserCreate : add_user(h, user)
    \/ \E h \in Handlers, presentation \in PresentationCreate : add_presentation(h, presentation)

SpecApp == Init /\ [][NextApp]_vars

----------------------------------------------------------------------------
(* Concurrent votes.  Each request runs votes_create on a connection of    *)
(* its own (get_connection opens one per request): the INSERT, then the    *)
(* commit when `with conn:` exits.  Between the two the row is in the      *)
(* unique index but not committed: PostgreSQL makes another INSERT of the  *)
(* same key wait until that transaction ends, and then raises the          *)
(* uniqueness error if it committed.                                       *)

Requests == 1..MaxVotes

(* The votes the query functions see: the committed rows.                  *)
CommittedVotes == votes

(* Uncommitted rows that only an application-level check would miss.       *)
NoUncommittedVotes(r) == {}

(* The rows other requests have inserted and not yet committed.            *)
UncommittedVotes(r) ==
    {requests[q].row[1] : q \in {x \in Requests \ {r} : requests[x].pc = "inserted"}}

Finish(r, exc, ret) ==
    requests' = [requests EXCEPT ![r].pc = "done", ![r].row = None,
                                 ![r].exc = exc, ![r].ret = ret]

(* The foreign keys of a votes row, checked after the unique index.        *)
VoteForeignKeysHold(row) ==
    /\ row.session_id \in Ids(live_sessions)
    /\ row.participant_id \in Ids(participants)
    /\ row.question_id \in Ids(questions)
    /\ (row.option_id # None => row.option_id[1] \in Ids(options))

(* cur.execute(INSERT INTO votes ...) of request r.                        *)
RequestInsert(r) ==
    /\ requests[r].pc = "start"
    /\ seq.votes < MaxVotes
    /\ Advance("votes")
    /\ UNCHANGED <<tables, last, setup, app>>
    /\ LET a == requests[r].args
           row == [id |-> NextVal("votes"), session_id |-> a[1], participant_id |-> a[2],
                   question_id |-> a[3], option_id |-> a[4], text_answer |-> a[5]]
       IN  IF ~ votes_one_answer_only(row) THEN Finish(r, "CheckViolation", None)
           ELSE IF ~ votes_one_per_question(CommittedVotes, row)
           THEN Finish(r, "UniqueViolation", None)
           ELSE IF ~ votes_one_per_question(UncommittedVotes(r), row)
           THEN requests' = [requests EXCEPT ![r].pc = "blocked", ![r].row = Some(row),
                                             ![r].waited = TRUE]
           ELSE IF ~ VoteForeignKeysHold(row) THEN Finish(r, "ForeignKeyViolation", None)
           ELSE requests' = [requests EXCEPT ![r].pc = "inserted", ![r].row = Some(row)]

(* The INSERT of request r goes on once no uncommitted row of its key is   *)
(* left.                                                                   *)
RequestResume(r) ==
    /\ requests[r].pc = "blocked"
    /\ votes_one_per_question(UncommittedVotes(r), requests[r].row[1])
    /\ UNCHANGED <<tables, seq, last, setup, app>>
    /\ LET row == requests[r].row[1]
       IN  IF ~ votes_one_per_question(CommittedVotes, row)
           THEN Finish(r, "UniqueViolation", None)
           ELSE IF ~ VoteForeignKeysHold(row) THEN Finish(r, "ForeignKeyViolation", None)
           ELSE requests' = [requests EXCEPT ![r].pc = "inserted"]

(* `with conn:` exits: the transaction of request r commits and            *)
(* votes_create returns the row.                                           *)
RequestCommit(r) ==
    /\ requests[r].pc = "inserted"
    /\ votes' = votes \cup {requests[r].row[1]}
    /\ Finish(r, "", requests[r].row)
    /\ UNCHANGED <<users, presentations, questions, options, live_sessions, participants,
                   qna_messages, qna_upvotes, seq, last, setup, app>>

(* What the concurrent requests ask for: votes of participant 1 in session *)
(* 1 on question 1 or 2, with any combination of option and text.          *)
RaceArgs == {<<1, 1, q, o, t>> : q \in QuestionIds, o \in Opt(OptionIds), t \in Opt(TextAnswers)}

(* A poll in progress, a state Spec reaches: one presentation with its     *)
(* questions, the options of question 1, a session and a participant, no   *)
(* vote yet.                                                               *)
PollInProgress ==
    /\ users = {[id |-> 1, email |-> "a@x", password_hash |-> "h", avatar_url |-> None,
                 role |-> "teacher"]}
    /\ presentations = {[id |-> 1, owner_id |-> 1, title |-> "Poll"]}
    /\ questions = {[id |-> q, presentation_id |-> 1, type_code |-> "multiple_choice",
                     text |-> "Favorite color?", media_url |-> None, order_index |-> 0,
                     settings |-> {}] : q \in QuestionIds}
    /\ options = {[id |-> o, question_id |-> 1, text |-> "Red", is_correct |-> FALSE,
                   order_index |-> 0] : o \in OptionIds}
    /\ live_sessions = {[id |-> 1, presentation_id |-> 1, access_code |-> "ABC123",
                         status |-> "created", current_question_id |-> None]}
    /\ participants = {[id |-> 1, session_id |-> 1, nickname |-> "alice"]}
    /\ votes = {}
    /\ qna_messages = {}
    /\ qna_upvotes = {}
    /\ seq = [t \in TableNames |->
                CASE t = "users" -> 1 [] t = "presentations" -> 1
                  [] t = "questions" -> MaxQuestions [] t = "options" -> MaxOptions
                  [] t = "live_sessions" -> 1 [] t = "participants" -> 1
                  [] OTHER -> 0]

InitRace ==
    /\ PollInProgress
    /\ last = [op |-> "create_tables", args |-> <<>>, exc |-> "", ret |-> None]
    /\ question_types = QuestionTypeSeed
    /\ relations = Relations
    /\ handlers = [h \in Handlers |-> Idle]
    /\ connections = <<>>
    /\ requests \in [Requests ->
                       {[pc |-> "start", args |-> a, row |-> None, waited |-> FALSE,
                         exc |-> "", ret |-> None] : a \in RaceArgs}]

NextRace == \E r \in Requests : RequestInsert(r) \/ RequestResume(r) \/ RequestCommit(r)

SpecRace == InitRace /\ [][NextRace]_vars

----------------------------------------------------------------------------
(* Properties of voting, checked under Spec.                               *)

SameVoteKey(v, w) ==
    /\ v.session_id = w.session_id
    /\ v.participant_id = w.participant_id
    /\ v.question_id = w.question_id

(* The vote a votes_create call with arguments a asks for.                 *)
VoteArgs(a) ==
    [session_id |-> a[1], participant_id |-> a[2], question_id |-> a[3],
     option_id |-> a[4], text_answer |-> a[5]]

ExactlyOneAnswer(v) ==
    \/ (v.option_id # None /\ v.text_answer = None)
    \/ (v.option_id = None /\ v.text_answer # None)

(* C1: at most one vote is stored per (session_id, participant_id,         *)
(* question_id); a votes_create for a key that already has a vote is       *)
(* rejected and leaves the votes as they were, with a uniqueness error     *)
(* when the new vote gives one answer (an option, also a different one,    *)
(* or a text).                                                             *)
C1_OneVotePerKey ==
    /\ [](\A v, w \in votes : SameVoteKey(v, w) => v = w)
    /\ [][ (last'.op = "votes_create"
            /\ \E v \in votes : SameVoteKey(v, VoteArgs(last'.args)))
           => /\ last'.exc # ""
              /\ last'.ret = None
              /\ votes' = votes
              /\ ExactlyOneAnswer(VoteArgs(last'.args)) => last'.exc = "UniqueViolation" ]_vars

(* A second vote naming another option was rejected; the first is stored.  *)
C1_Witness ==
    /\ last.op = "votes_create"
    /\ last.exc = "UniqueViolation"
    /\ last.args[4] # None
    /\ \E v \in votes : /\ SameVoteKey(v, VoteArgs(last.args))
                        /\ v.option_id # None
                        /\ v.option_id # last.args[4]

(* C2: every stored vote has exactly one of option_id and text_answer set; *)
(* a votes_create with both or neither is rejected with a check violation  *)
(* and stores nothing; no operation, a delete of an option or a question   *)
(* included, leaves a vote with both or neither.                           *)
C2_ExactlyOneAnswer ==
    /\ [](\A v \in votes : ExactlyOneAnswer(v))
    /\ [][ (last'.op = "votes_create" /\ ~ ExactlyOneAnswer(VoteArgs(last'.args)))
           => /\ last'.exc = "CheckViolation"
              /\ last'.ret = None
              /\ votes' = votes ]_vars

(* An option that a stored vote chose was deleted, or so it was asked: the *)
(* vote still has exactly its option.                                      *)
C2_Witness ==
    /\ last.op = "options_delete"
    /\ last.exc = "CheckViolation"
    /\ \E v \in votes : v.option_id = Some(last.args[1]) /\ v.text_answer = None

----------------------------------------------------------------------------
(* Properties of concurrent votes, checked under SpecRace.                 *)

(* A request whose vote gives exactly one answer, and the requests of that *)
(* kind for the same key as request r.                                      *)
ValidRequest(r) == ExactlyOneAnswer(VoteArgs(requests[r].args))
SameKeyRequests(r) ==
    {q \in Requests : /\ ValidRequest(q)
                      /\ requests[q].args[1] = requests[r].args[1]
                      /\ requests[q].args[2] = requests[r].args[2]
                      /\ requests[q].args[3] = requests[r].args[3]}

(* C5: when requests insert a vote for the same (session, participant,     *)
(* question) concurrently, in every interleaving one of them stores its    *)
(* vote and every other one gets the uniqueness error; a request that has  *)
(* returned or raised does nothing more (no retry, no queue), and a stored *)
(* vote is never changed or removed.                                       *)
C5_RaceOneWinner ==
    /\ [](\A v, w \in votes :
             ( /\ v.session_id = w.session_id
               /\ v.participant_id = w.participant_id
               /\ v.question_id = w.question_id ) => v = w)
    /\ []((\A r \in Requests : requests[r].pc = "done")
          => \A r \in Requests :
                ValidRequest(r)
                => LET same == SameKeyRequests(r)
                       won == {q \in same : requests[q].exc = ""}
                   IN  /\ Cardinality(won) = 1
                       /\ \A q \in same \ won : requests[q].exc = "UniqueViolation"
                       /\ \A q \in won :
                             {v \in votes : /\ v.session_id = requests[r].args[1]
                                            /\ v.participant_id = requests[r].args[2]
                                            /\ v.question_id = requests[r].args[3]}
                               = {requests[q].ret[1]})
    /\ [][ /\ \A v \in votes : v \in votes'
           /\ \A r \in Requests : requests[r].pc = "done" => requests'[r] = requests[r] ]_vars

(* Two requests voted for the same key with different options; one waited  *)
(* for the other's commit and got the uniqueness error.                    *)
C5_Witness ==
    /\ \A r \in Requests : requests[r].pc = "done"
    /\ \E r, q \in Requests :
          /\ requests[r].exc = ""
          /\ requests[q].exc = "UniqueViolation"
          /\ requests[q].waited
          /\ requests[r].args[4] # None
          /\ requests[q].args[4] # None
          /\ requests[r].args[4] # requests[q].args[4]
          /\ votes = {requests[r].ret[1]}

----------------------------------------------------------------------------
(* Properties of deleting and of reading back, checked under Spec.         *)

(* C3: presentations_delete on an existing presentation succeeds, returns  *)
(* True and leaves no question, option, live session, participant or vote  *)
(* of that presentation.                                                   *)
C3_PresentationDeleteCascades ==
    [][ (last'.op = "presentations_delete" /\ last'.args[1] \in Ids(presentations))
        => LET id == last'.args[1]
               qs == {q.id : q \in {x \in questions : x.presentation_id = id}}
               os == {o.id : o \in {x \in options : x.question_id \in qs}}
               ss == {t.id : t \in {x \in live_sessions : x.presentation_id = id}}
               ps == {p.id : p \in {x \in participants : x.session_id \in ss}}
           IN  /\ last'.exc = ""
               /\ last'.ret = Some(TRUE)
               /\ id \notin Ids(presentations')
               /\ Ids(questions') \cap qs = {}
               /\ Ids(options') \cap os = {}
               /\ Ids(live_sessions') \cap ss = {}
               /\ Ids(participants') \cap ps = {}
               /\ \A v \in votes' : /\ v.session_id \notin ss
                                    /\ v.participant_id \notin ps
                                    /\ v.question_id \notin qs ]_vars

(* The rows of database d that a delete function's WHERE clause matches.   *)
DeleteTarget(d, op, args) ==
    CASE op = "users_delete" -> {r \in d.users : r.id = args[1]}
      [] op = "presentations_delete" -> {r \in d.presentations : r.id = args[1]}
      [] op = "questions_delete" -> {r \in d.questions : r.id = args[1]}
      [] op = "options_delete" -> {r \in d.options : r.id = args[1]}
      [] op = "sessions_delete" -> {r \in d.live_sessions : r.id = args[1]}
      [] op = "participants_delete" -> {r \in d.participants : r.id = args[1]}
      [] op = "qna_messages_delete" -> {r \in d.qna_messages : r.id = args[1]}
      [] op = "qna_upvotes_delete" ->
            {r \in d.qna_upvotes : r.message_id = args[1] /\ r.participant_id = args[2]}

DeleteOps == {"users_delete", "presentations_delete", "questions_delete", "options_delete",
              "sessions_delete", "participants_delete", "qna_messages_delete",
              "qna_upvotes_delete"}

(* C9: a delete function raises nothing; it returns True exactly when a    *)
(* row with the key existed, and that row is then gone; it returns False   *)
(* and changes nothing otherwise.                                          *)
C9_DeleteReportsExistence ==
    [][ last'.op \in DeleteOps
        => LET before == DeleteTarget(DB, last'.op, last'.args)
           IN  /\ last'.exc = ""
               /\ last'.ret = Some(before # {})
               /\ DeleteTarget(DB', last'.op, last'.args) = {}
               /\ before = {} => UNCHANGED tables ]_vars

(* The get function of each entity that has one, by its create function,   *)
(* and the columns the get adds to those the create returns.               *)
GetOf == [users_create |-> "users_get", presentations_create |-> "presentations_get",
          questions_create |-> "questions_get", sessions_create |-> "sessions_get"]
JoinedColumns == [users_create |-> {}, presentations_create |-> {"owner_email"},
                  questions_create |-> {"type_label"}, sessions_create |-> {}]

(* A successful create, directly followed by the get of the id it returned. *)
GetAfterCreate ==
    /\ last.op \in DOMAIN GetOf
    /\ last.exc = ""
    /\ last'.op = GetOf[last.op]
    /\ last'.args = <<last.ret[1].id>>

(* C10 as stated: the get returns a row identical to the row the create    *)
(* returned.                                                               *)
C10_RoundTripIdentical ==
    [][ GetAfterCreate => last'.ret = last.ret ]_vars

(* C10 as amended: the get returns a row that has every column of the row  *)
(* the create returned, with the same value; the rows are identical for    *)
(* users and live sessions, and the get adds owner_email for presentations *)
(* and type_label for questions.                                           *)
C10_RoundTripSameColumns ==
    [][ GetAfterCreate
        => /\ last'.exc = ""
           /\ last'.ret # None
           /\ DOMAIN last'.ret[1] = DOMAIN last.ret[1] \cup JoinedColumns[last.op]
           /\ \A c \in DOMAIN last.ret[1] : last'.ret[1][c] = last.ret[1][c] ]_vars

(* The question created last was read back, with its type label.           *)
C10_Witness ==
    /\ last.op = "questions_get"
    /\ last.args = <<seq.questions>>
    /\ last.ret # None
    /\ last.ret[1].type_label = "Multiple choice"

----------------------------------------------------------------------------
(* Properties of joining, checked under SpecJoin.                          *)

(* C4: no two participants share (session_id, nickname); a                 *)
(* participants_create with a nickname taken in that session is rejected   *)
(* and adds no row, and with a nickname not taken in that session (taken   *)
(* in another or not) it adds the participant.                             *)
C4_NicknameUniquePerSession ==
    /\ [](\A p, q \in participants :
             (p.session_id = q.session_id /\ p.nickname = q.nickname) => p = q)
    /\ [][ last'.op = "participants_create"
           => LET s == last'.args[1]
                  n == last'.args[2]
              IN  IF \E p \in participants : p.session_id = s /\ p.nickname = n
                  THEN /\ last'.exc = "UniqueViolation"
                       /\ participants' = participants
                  ELSE s \in Ids(live_sessions)
                       => /\ last'.exc = ""
                          /\ participants' = participants \cup
                               {[id |-> seq'.participants, session_id |-> s, nickname |-> n]} ]_vars

(* A nickname already used in the session was refused.                     *)
C4_Witness ==
    /\ last.op = "participants_create"
    /\ last.exc = "UniqueViolation"
    /\ \E p \in participants : p.session_id = last.args[1] /\ p.nickname = last.args[2]
    /\ participants # {}
    /\ seq.participants = Cardinality(participants) + 1

----------------------------------------------------------------------------
(* Properties of patching, checked under SpecPatch.                        *)

PatchOps == {"users_patch", "sessions_patch", "qna_messages_patch"}

(* The call passed no field: every argument after the id is None.          *)
NoFields(args) == \A i \in 2..Len(args) : args[i] = None

(* The table a patch function updates.                                     *)
PatchTable(d, op) ==
    CASE op = "users_patch" -> d.users
      [] op = "sessions_patch" -> d.live_sessions
      [] op = "qna_messages_patch" -> d.qna_messages

C7_EmptyPatchIsNoOp ==
    [][ (last'.op \in PatchOps /\ NoFields(last'.args))
        => /\ last'.exc = ""
           /\ last'.ret = None
           /\ UNCHANGED <<tables, seq>> ]_vars

(* users_patch was called with no field on a user that exists.             *)
C7_Witness ==
    /\ last.op = "users_patch"
    /\ NoFields(last.args)
    /\ last.args[1] \in Ids(users)
    /\ last.ret = None

(* C8: what a patch with no field returns differs from what the same patch *)
(* returns for an id that does not exist: a call with fields that found no *)
(* row, followed by a call with no field for the same id.                  *)
C8_EmptyPatchDistinctFromNotFound ==
    [][ ( /\ last.op \in PatchOps
          /\ ~ NoFields(last.args)
          /\ last.exc = ""
          /\ last.args[1] \notin Ids(PatchTable(DB, last.op))
          /\ last'.op = last.op
          /\ last'.args[1] = last.args[1]
          /\ NoFields(last'.args) )
        => <<last'.exc, last'.ret>> # <<last.exc, last.ret>> ]_vars

----------------------------------------------------------------------------
(* Properties of live sessions, checked under SpecSession.                 *)

(* The place of a status in the lifecycle created -> live -> ended.        *)
StatusRank == [created |-> 1, live |-> 2, ended |-> 3]

(* C11: the status of every live session is one of created, live, ended,   *)
(* and no call moves the status of a session backward in the lifecycle     *)
(* created -> live -> ended.                                               *)
C11_StatusLifecycle ==
    /\ [](\A s \in live_sessions : s.status \in Statuses)
    /\ [][ \A s \in live_sessions : \A t \in live_sessions' :
              t.id = s.id => StatusRank[t.status] >= StatusRank[s.status] ]_vars

(* The live_sessions row a sessions_create or sessions_update call writes.  *)
SessionWritten(op, args) ==
    IF op = "sessions_create"
    THEN [id |-> seq.live_sessions + 1, presentation_id |-> args[1], access_code |-> args[2],
          status |-> args[3], current_question_id |-> args[4]]
    ELSE [id |-> args[1], presentation_id |-> args[2], access_code |-> args[3],
          status |-> args[4], current_question_id |-> args[5]]

(* The call writes a row: an INSERT always, an UPDATE when its id is       *)
(* stored.                                                                 *)
SessionWriteApplies(op, args) ==
    op = "sessions_update" => args[1] \in Ids(live_sessions)

(* The sequence an INSERT of each create function draws its id from.        *)
SequenceOf == [users_create |-> "users", presentations_create |-> "presentations",
               questions_create |-> "questions", sessions_create |-> "live_sessions"]

(* C12: no two live sessions share an access_code; a sessions_create, and   *)
(* a sessions_update of a session that exists, with a code that another    *)
(* session holds is rejected (with the uniqueness error when the status is *)
(* valid) and changes nothing; sessions_get_by_code returns the session    *)
(* that has the code, or None when there is none.                          *)
C12_AccessCodeUnique ==
    /\ [](\A s, t \in live_sessions : s.access_code = t.access_code => s = t)
    /\ [][ /\ ( /\ last'.op \in {"sessions_create", "sessions_update"}
                /\ SessionWriteApplies(last'.op, last'.args)
                /\ \E s \in live_sessions :
                      /\ s.id # SessionWritten(last'.op, last'.args).id
                      /\ s.access_code = SessionWritten(last'.op, last'.args).access_code )
              => /\ last'.exc # ""
                 /\ last'.ret = None
                 /\ UNCHANGED tables
                 /\ SessionWritten(last'.op, last'.args).status \in Statuses
                      => last'.exc = "UniqueViolation"
           /\ last'.op = "sessions_get_by_code"
              => /\ last'.exc = ""
                 /\ UNCHANGED tables
                 /\ \A s \in live_sessions :
                       s.access_code = last'.args[1] => last'.ret = Some(s)
                 /\ (\A s \in live_sessions : s.access_code # last'.args[1])
                       => last'.ret = None ]_vars

(* A session was refused the access code of the other session.             *)
C12_Witness ==
    /\ last.op = "sessions_update"
    /\ last.exc = "UniqueViolation"
    /\ Cardinality(live_sessions) = 2
    /\ \E s, t \in live_sessions :
          /\ s.id = last.args[1]
          /\ t.id # s.id
          /\ t.access_code = last.args[3]
          /\ s.access_code # t.access_code

(* C13: every current_question_id names a stored question; when            *)
(* questions_delete removes a question, each session that pointed at it is *)
(* still stored, with current_question_id null and its other columns as    *)
(* they were, and every other session is as it was.                        *)
C13_CurrentQuestionSetNull ==
    /\ [](\A s \in live_sessions :
             s.current_question_id # None => s.current_question_id[1] \in Ids(questions))
    /\ [][ ( /\ last'.op = "questions_delete"
            /\ last'.args[1] \in Ids(questions)
            /\ last'.args[1] \notin Ids(questions') )
          => live_sessions' =
               { IF s.current_question_id = Some(last'.args[1])
                 THEN [s EXCEPT !.current_question_id = None] ELSE s : s \in live_sessions } ]_vars

(* A question was deleted; a live session is stored without a current      *)
(* question while the other session still points at the other question.    *)
C13_Witness ==
    /\ last.op = "questions_delete"
    /\ last.ret = Some(TRUE)
    /\ \E s, t \in live_sessions :
          /\ s.status = "live"
          /\ s.current_question_id = None
          /\ t.current_question_id # None
          /\ t.current_question_id[1] # last.args[1]

(* C14: a sessions_create or sessions_update whose row violates a          *)
(* constraint raises that error; a call that raises returns nothing and    *)
(* leaves every table as it was; it made one attempt: a create took one    *)
(* value of its sequence, any other call none.                             *)
C14_FailedWriteRolledBack ==
    [][ /\ ( /\ last'.op \in {"sessions_create", "sessions_update"}
            /\ SessionWriteApplies(last'.op, last'.args)
            /\ SessionRowError(DB, SessionWritten(last'.op, last'.args)) # "" )
          => last'.exc = SessionRowError(DB, SessionWritten(last'.op, last'.args))
        /\ last'.exc # ""
          => /\ last'.exc \in {"CheckViolation", "UniqueViolation", "ForeignKeyViolation"}
             /\ last'.ret = None
             /\ UNCHANGED tables
             /\ \A t \in TableNames :
                   seq'[t] = IF last'.op \in DOMAIN SequenceOf /\ SequenceOf[last'.op] = t
                             THEN seq[t] + 1 ELSE seq[t] ]_vars

(* An update naming a question that is not stored was refused; both         *)
(* sessions are stored as before.                                          *)
C14_Witness ==
    /\ last.op = "sessions_update"
    /\ last.exc = "ForeignKeyViolation"
    /\ last.args[5] # None
    /\ last.args[5][1] \notin Ids(questions)
    /\ Cardinality(live_sessions) = 2
    /\ \A s \in live_sessions : s.current_question_id = None

----------------------------------------------------------------------------
(* Properties of votes and the rows they refer to, checked under Spec.     *)

(* C18: options_delete on a stored option raises nothing, returns True and *)
(* removes the option, with or without votes on it; a vote that chose the  *)
(* option stays stored with option_id null, and every other vote is as it  *)
(* was.                                                                    *)
C18_OptionDeleteKeepsVotes ==
    [][ (last'.op = "options_delete" /\ last'.args[1] \in Ids(options))
        => /\ last'.exc = ""
           /\ last'.ret = Some(TRUE)
           /\ options' = {o \in options : o.id # last'.args[1]}
           /\ votes' = { IF v.option_id = Some(last'.args[1])
                         THEN [v EXCEPT !.option_id = None] ELSE v : v \in votes } ]_vars

(* C19: the participant of every stored vote is a participant of the       *)
(* vote's session, and the option of every stored vote that has one is an  *)
(* option of the vote's question.                                          *)
C19_VoteConsistentWithSession ==
    \A v \in votes :
       /\ \E p \in participants : p.id = v.participant_id /\ p.session_id = v.session_id
       /\ v.option_id # None
            => \E o \in options : o.id = v.option_id[1] /\ o.question_id = v.question_id

----------------------------------------------------------------------------
(* Properties of the request handlers, checked under SpecApp.              *)

(* The try block of handler h runs in this step.                           *)
TryRuns(h) == handlers[h].pc = "try" /\ handlers'[h].pc # "try"

(* C15: a POST /users whose email is not in use stores exactly one new     *)
(* user, with that email, and a POST /presentations whose owner_id is a    *)
(* stored user stores exactly one new presentation of that owner; each     *)
(* answers with a success status.                                          *)
C15_CreateEndpointsSucceed ==
    [][ \A h \in Handlers :
          /\ ( /\ TryRuns(h)
               /\ handlers[h].route = "add_user"
               /\ \A u \in users : u.email # handlers[h].body[1].email )
             => /\ handlers'[h].response # None
                /\ handlers'[h].response[1].status_code \in {200, 201}
                /\ \E u \in users' : /\ u.email = handlers[h].body[1].email
                                      /\ users' = users \cup {u}
          /\ ( /\ TryRuns(h)
               /\ handlers[h].route = "add_presentation"
               /\ handlers[h].body[1].owner_id \in Ids(users) )
             => /\ handlers'[h].response # None
                /\ handlers'[h].response[1].status_code \in {200, 201}
                /\ \E p \in presentations' :
                      /\ p.owner_id = handlers[h].body[1].owner_id
                      /\ p \notin presentations
                      /\ presentations' = presentations \cup {p} ]_vars

(* C17: a request that has ended and had obtained a connection has closed  *)
(* it and has run exactly one query function on it; no two requests have   *)
(* the same connection.                                                    *)
C17_OneConnectionPerRequest ==
    /\ \A h \in Handlers :
          (handlers[h].pc = "done" /\ handlers[h].conn # None)
          => /\ ~ connections[handlers[h].conn[1]].open
             /\ handlers[h].queries = 1
    /\ \A h, g \in Handlers :
          (h # g /\ handlers[h].conn # None) => handlers[h].conn # handlers[g].conn

----------------------------------------------------------------------------
(* Properties of the schema setup, checked under SpecSetup.                *)

(* C16: create_tables run on a database that has the tables, and that can  *)
(* be reached, completes without an error and leaves question_types with   *)
(* the rows it had, one row per code.                                      *)
C16_SetupIdempotent ==
    [][ ( /\ last'.op = "create_tables"
          /\ last'.exc # "OperationalError"
          /\ relations = Relations )
        => /\ last'.exc = ""
           /\ question_types' = question_types
           /\ \A a, b \in question_types' : a.code = b.code => a = b ]_vars

====
